---- MODULE Spec2Model ----
(***************************************************************************)
(* Request decoding of the debug RPC interface                             *)
(* (client/rpc-core/src/debug.rs).                                         *)
(*                                                                         *)
(* A text is a sequence of one-character strings.  A u32 is kept as two    *)
(* 16-bit limbs <<hi, lo>> (value hi * 2^16 + lo), so that the checked     *)
(* arithmetic of u32::from_str_radix is computed at its real width.        *)
(* An Option is <<>> (None) or <<v>> (Some(v)).                            *)
(***************************************************************************)
EXTENDS Integers, Sequences, FiniteSets

VARIABLES method, params, result

vars == <<method, params, result>>

\* ------------------------------------------------------------- bounds

\* Longest text of the exhaustive text set.
MaxLen == 3

\* Most leading zeros put before a boundary number.
MaxPad == 2

\* Most keys of a call envelope whose values are drawn freely.
MaxKeys == 2

\* ------------------------------------------------------------- characters

DecDigits == <<"0", "1", "2", "3", "4", "5", "6", "7", "8", "9">>

LowerHexLetters == <<"a", "b", "c", "d", "e", "f">>

UpperHexLetters == <<"A", "B", "C", "D", "E", "F">>

IndexOf(seq, c) ==
    IF \E i \in 1..Len(seq) : seq[i] = c
    THEN CHOOSE i \in 1..Len(seq) : seq[i] = c
    ELSE 0

LowerLetters ==
    <<"a", "b", "c", "d", "e", "f", "g", "h", "i", "j", "k", "l", "m", "n",
      "o", "p", "q", "r", "s", "t", "u", "v", "w", "x", "y", "z">>

UpperLetters ==
    <<"A", "B", "C", "D", "E", "F", "G", "H", "I", "J", "K", "L", "M", "N",
      "O", "P", "Q", "R", "S", "T", "U", "V", "W", "X", "Y", "Z">>

ToUpper(c) ==
    IF IndexOf(LowerLetters, c) > 0 THEN UpperLetters[IndexOf(LowerLetters, c)] ELSE c

ToLower(c) ==
    IF IndexOf(UpperLetters, c) > 0 THEN LowerLetters[IndexOf(UpperLetters, c)] ELSE c

LowerText(t) == [i \in 1..Len(t) |-> ToLower(t[i])]

UpperText(t) == [i \in 1..Len(t) |-> ToUpper(t[i])]

NoDigit == 0 - 1

\* char::to_digit(radix): the digit's value when it is below the radix.
to_digit(c, radix) ==
    LET d == IndexOf(DecDigits, c)
        l == IndexOf(LowerHexLetters, c)
        u == IndexOf(UpperHexLetters, c)
        v == IF d > 0 THEN d - 1
             ELSE IF l > 0 THEN 9 + l
             ELSE IF u > 0 THEN 9 + u
             ELSE NoDigit
    IN  IF v >= 0 /\ v < radix THEN v ELSE NoDigit

\* ------------------------------------------------------------- u32

Limb == 2 ^ 16

None == <<>>

Some(v) == <<v>>

\* Mutant of checked_mul: the product wraps at 32 bits.
wrapping_mul(v, radix) ==
    LET lo == v[2] * radix
        hi == v[1] * radix + (lo \div Limb)
    IN  Some(<<hi % Limb, lo % Limb>>)

\* u32::checked_mul by the radix: None on overflow.
checked_mul(v, radix) ==
    LET lo == v[2] * radix
        hi == v[1] * radix + (lo \div Limb)
    IN  IF hi >= Limb THEN None ELSE Some(<<hi, lo % Limb>>)

\* u32::checked_add of one digit: None on overflow.
checked_add(v, x) ==
    LET lo == v[2] + x
        hi == v[1] + (lo \div Limb)
    IN  IF hi >= Limb THEN None ELSE Some(<<hi, lo % Limb>>)

Ok(v) == [ok |-> TRUE, val |-> v, err |-> ""]

Err(e) == [ok |-> FALSE, val |-> <<>>, err |-> e]

\* One turn of the digit loop of from_str_radix: an invalid digit is
\* reported before the overflow of the multiplication, then the overflow
\* of the addition; an error ends the loop.
ParseDigit(acc, c, radix) ==
    IF ~acc.ok THEN acc
    ELSE LET x == to_digit(c, radix)
             mul == checked_mul(acc.val, radix)
         IN  IF x = NoDigit THEN Err("InvalidDigit")
             ELSE IF mul = None THEN Err("PosOverflow")
             ELSE LET add == checked_add(mul[1], x)
                  IN  IF add = None THEN Err("PosOverflow") ELSE Ok(add[1])

RECURSIVE ParseDigits(_, _, _)
\* The digit loop over digits, from the left, starting from acc (the
\* text is halved to keep the evaluation shallow; the order of the turns
\* is the loop's).
ParseDigits(digits, radix, acc) ==
    IF digits = <<>> THEN acc
    ELSE IF Len(digits) = 1 THEN ParseDigit(acc, digits[1], radix)
    ELSE LET half == Len(digits) \div 2
             left == ParseDigits(SubSeq(digits, 1, half), radix, acc)
         IN  IF left.ok
             THEN ParseDigits(SubSeq(digits, half + 1, Len(digits)), radix, left)
             ELSE left

\* u32::from_str_radix: an empty text and a lone sign are errors, one
\* leading "+" is skipped, and "-" is no digit of an unsigned type.
from_str_radix(src, radix) ==
    IF src = <<>> THEN Err("Empty")
    ELSE IF src = <<"+">> \/ src = <<"-">> THEN Err("InvalidDigit")
    ELSE ParseDigits(IF Head(src) = "+" THEN Tail(src) ELSE src, radix, Ok(<<0, 0>>))

HasPrefix0x(buf) == Len(buf) >= 2 /\ buf[1] = "0" /\ buf[2] = "x"

\* str::strip_prefix("0x")
strip_prefix(buf) ==
    IF HasPrefix0x(buf) THEN Some(SubSeq(buf, 3, Len(buf))) ELSE None

\* A JSON value on the wire: a string carries its text.
JsonString(text) == [type |-> "string", text |-> text]

JsonNumber(text) == [type |-> "number", text |-> text]

JsonNull == [type |-> "null", text |-> <<>>]

\* Mutant of deserialize_u32_0x: the digits after "0x" are read in base 10.
deserialize_u32_0x_base10(json) ==
    IF json.type /= "string" THEN Err("InvalidType")
    ELSE LET buf == json.text
             stripped == strip_prefix(buf)
         IN  IF stripped /= None
             THEN from_str_radix(stripped[1], 10)
             ELSE from_str_radix(buf, 10)

\* deserialize_u32_0x: the value must be a JSON string (String::deserialize);
\* its text is parsed in base 16 after a "0x" prefix, in base 10 otherwise.
deserialize_u32_0x(json) ==
    IF json.type /= "string" THEN Err("InvalidType")
    ELSE LET buf == json.text
             stripped == strip_prefix(buf)
         IN  IF stripped /= None
             THEN from_str_radix(stripped[1], 16)
             ELSE from_str_radix(buf, 10)

\* ------------------------------------------------------------- H256

\* Bytes of an H256.
HashBytes == 32

Whitespace == {" "}

IsHexChar(c) == to_digit(c, 16) /= NoDigit

NotBlank(c) == c \notin Whitespace

\* The hex decoder of the fixed-hash types: blanks are skipped, any other
\* character that is no hex digit is an error, and each two digits make
\* one byte.
from_hex_raw(v) ==
    IF \E i \in 1..Len(v) : NotBlank(v[i]) /\ ~IsHexChar(v[i])
    THEN Err("InvalidHex")
    ELSE LET digits == SelectSeq(v, NotBlank)
         IN  Ok([i \in 1..(Len(digits) \div 2) |->
                    16 * to_digit(digits[2 * i - 1], 16) + to_digit(digits[2 * i], 16)])

ZeroBytes(n) == [i \in 1..n |-> 0]

\* Mutant of deserialize_H256: the "0x" prefix is required.
deserialize_H256_prefixed(json) ==
    IF json.type /= "string" THEN Err("InvalidType")
    ELSE LET stripped == strip_prefix(json.text)
         IN  IF stripped = None THEN Err("MissingPrefix")
             ELSE IF Len(stripped[1]) /= 2 * HashBytes THEN Err("InvalidLength")
             ELSE from_hex_raw(stripped[1])

\* H256 as Deserialize: a JSON string, "0x" optional, exactly 64 characters
\* after it; the decoded bytes fill a zeroed array from the front.
deserialize_H256(json) ==
    IF json.type /= "string" THEN Err("InvalidType")
    ELSE LET stripped == strip_prefix(json.text)
             v == IF stripped /= None THEN stripped[1] ELSE json.text
         IN  IF Len(v) /= 2 * HashBytes THEN Err("InvalidLength")
             ELSE LET r == from_hex_raw(v)
                  IN  IF r.ok
                      THEN Ok(r.val \o ZeroBytes(HashBytes - Len(r.val)))
                      ELSE r

\* ------------------------------------------------------------- tags

\* The variant names of RequestBlockTag under rename_all = "camelCase".
TagNames ==
    [Earliest |-> <<"e", "a", "r", "l", "i", "e", "s", "t">>,
     Latest   |-> <<"l", "a", "t", "e", "s", "t">>,
     Pending  |-> <<"p", "e", "n", "d", "i", "n", "g">>]

\* Mutant of deserialize_RequestBlockTag: the names are matched without
\* regard to case.
deserialize_RequestBlockTag_anycase(json) ==
    IF json.type /= "string" THEN Err("InvalidType")
    ELSE IF \E t \in DOMAIN TagNames : TagNames[t] = LowerText(json.text)
         THEN Ok(CHOOSE t \in DOMAIN TagNames : TagNames[t] = LowerText(json.text))
         ELSE Err("UnknownVariant")

\* RequestBlockTag as Deserialize: the text is one of the variant names.
deserialize_RequestBlockTag(json) ==
    IF json.type /= "string" THEN Err("InvalidType")
    ELSE IF \E t \in DOMAIN TagNames : TagNames[t] = json.text
         THEN Ok(CHOOSE t \in DOMAIN TagNames : TagNames[t] = json.text)
         ELSE Err("UnknownVariant")

\* ------------------------------------------------------------- block id

Number(n) == [variant |-> "Number", num |-> n, hash |-> <<>>, tag |-> ""]

Hash(h) == [variant |-> "Hash", num |-> <<>>, hash |-> h, tag |-> ""]

Tag(t) == [variant |-> "Tag", num |-> <<>>, hash |-> <<>>, tag |-> t]

NoVariant == [variant |-> "Err", num |-> <<>>, hash |-> <<>>, tag |-> ""]

\* Mutant of deserialize_RequestBlockId: an input no variant decodes
\* becomes Tag(Latest).
deserialize_RequestBlockId_default(json) ==
    LET n == deserialize_u32_0x(json)
        h == deserialize_H256(json)
        t == deserialize_RequestBlockTag(json)
    IN  IF n.ok THEN Number(n.val)
        ELSE IF h.ok THEN Hash(h.val)
        ELSE IF t.ok THEN Tag(t.val)
        ELSE Tag("Latest")

\* Mutant of deserialize_RequestBlockId: Hash is declared, and so tried,
\* before Number.
deserialize_RequestBlockId_hash_first(json) ==
    LET n == deserialize_u32_0x(json)
        h == deserialize_H256(json)
        t == deserialize_RequestBlockTag(json)
    IN  IF h.ok THEN Hash(h.val)
        ELSE IF n.ok THEN Number(n.val)
        ELSE IF t.ok THEN Tag(t.val)
        ELSE NoVariant

\* RequestBlockId as Deserialize, untagged: the variants are tried in
\* their order of declaration and the first that decodes is the value.
deserialize_RequestBlockId(json) ==
    LET n == deserialize_u32_0x(json)
        h == deserialize_H256(json)
        t == deserialize_RequestBlockTag(json)
    IN  IF n.ok THEN Number(n.val)
        ELSE IF h.ok THEN Hash(h.val)
        ELSE IF t.ok THEN Tag(t.val)
        ELSE NoVariant

\* ------------------------------------------------------------- call envelope

\* The keys of TraceCallParams on the wire (rename_all = "camelCase", and
\* transaction_type renamed "type").
CallKeys ==
    {"from", "to", "gasPrice", "maxFeePerGas", "maxPriorityFeePerGas", "gas",
     "value", "data", "nonce", "accessList", "type"}

\* A value of a key of a JSON object: "0x0" and "0x1" stand for two values
\* that decode as the key's type, "null" for JSON null, "bad" for a value
\* that does not decode as the key's type.
GoodValues == {"0x0", "0x1"}

\* An Option field: a missing key and a null are None.
OptionField(obj, key) ==
    IF key \in DOMAIN obj /\ obj[key] /= "null" THEN Some(obj[key]) ELSE None

\* A value the derived visitor cannot decode: a bad value of any known key,
\* or null for the one key whose type is no Option.
Undecodable(obj, keys, required) ==
    \E k \in DOMAIN obj \cap keys :
        obj[k] = "bad" \/ (k \in required /\ obj[k] = "null")

\* Mutant of deserialize_TraceCallParams: a missing `to` takes the default
\* address (the struct also derives Default).
deserialize_TraceCallParams_default(obj) ==
    IF Undecodable(obj, CallKeys, {"to"}) THEN Err("InvalidValue")
    ELSE Ok([from |-> OptionField(obj, "from"),
             to |-> IF "to" \in DOMAIN obj THEN obj["to"] ELSE "0x0",
             gas_price |-> OptionField(obj, "gasPrice"),
             max_fee_per_gas |-> OptionField(obj, "maxFeePerGas"),
             max_priority_fee_per_gas |-> OptionField(obj, "maxPriorityFeePerGas"),
             gas |-> OptionField(obj, "gas"),
             value |-> OptionField(obj, "value"),
             data |-> OptionField(obj, "data"),
             nonce |-> OptionField(obj, "nonce"),
             access_list |-> OptionField(obj, "accessList"),
             transaction_type |-> OptionField(obj, "type")])

\* TraceCallParams as Deserialize: every value met is decoded as its key's
\* type, unknown keys are skipped, and after the last key a missing `to`
\* is the missing-field error; the other fields are Options.
deserialize_TraceCallParams(obj) ==
    IF Undecodable(obj, CallKeys, {"to"}) THEN Err("InvalidValue")
    ELSE IF "to" \notin DOMAIN obj THEN Err("MissingField(to)")
    ELSE Ok([from |-> OptionField(obj, "from"),
             to |-> obj["to"],
             gas_price |-> OptionField(obj, "gasPrice"),
             max_fee_per_gas |-> OptionField(obj, "maxFeePerGas"),
             max_priority_fee_per_gas |-> OptionField(obj, "maxPriorityFeePerGas"),
             gas |-> OptionField(obj, "gas"),
             value |-> OptionField(obj, "value"),
             data |-> OptionField(obj, "data"),
             nonce |-> OptionField(obj, "nonce"),
             access_list |-> OptionField(obj, "accessList"),
             transaction_type |-> OptionField(obj, "type")])

\* ------------------------------------------------------------- trace params

\* The keys of TraceParams on the wire (rename_all = "camelCase").
TraceKeys ==
    {"disableStorage", "disableMemory", "disableStack", "tracer",
     "tracerConfig", "timeout"}

\* An Option<bool> field: the JSON booleans are "true" and "false".
OptionBool(obj, key) ==
    IF key \in DOMAIN obj /\ obj[key] /= "null"
    THEN Some(obj[key] = "true")
    ELSE None

\* Mutant of deserialize_TraceParams: the keys are the field names as
\* written, without rename_all, so the camel-case keys are unknown ones.
deserialize_TraceParams_snake(obj) ==
    IF Undecodable(obj, TraceKeys, {}) THEN Err("InvalidValue")
    ELSE Ok([disable_storage |-> OptionBool(obj, "disable_storage"),
             disable_memory |-> OptionBool(obj, "disable_memory"),
             disable_stack |-> OptionBool(obj, "disable_stack"),
             tracer |-> OptionField(obj, "tracer"),
             tracer_config |-> OptionField(obj, "tracer_config"),
             timeout |-> OptionField(obj, "timeout")])

\* TraceParams as Deserialize: six Option fields, none required.
deserialize_TraceParams(obj) ==
    IF Undecodable(obj, TraceKeys, {}) THEN Err("InvalidValue")
    ELSE Ok([disable_storage |-> OptionBool(obj, "disableStorage"),
             disable_memory |-> OptionBool(obj, "disableMemory"),
             disable_stack |-> OptionBool(obj, "disableStack"),
             tracer |-> OptionField(obj, "tracer"),
             tracer_config |-> OptionField(obj, "tracerConfig"),
             timeout |-> OptionField(obj, "timeout")])

\* The third parameter of trace_call as it arrives: left out, null, or an
\* object.
Omitted == [kind |-> "omitted", obj |-> <<>>]

NullParam == [kind |-> "null", obj |-> <<>>]

ObjectParam(obj) == [kind |-> "object", obj |-> obj]

\* Option<TraceParams>: a parameter left out or null is None.
deserialize_OptionTraceParams(param) ==
    IF param.kind /= "object" THEN Ok(None)
    ELSE LET r == deserialize_TraceParams(param.obj)
         IN  IF r.ok THEN Ok(Some(r.val)) ELSE r

unwrap_or(opt, default) == IF opt = None THEN default ELSE opt[1]

\* The options handed to the tracing engine: the three flags default to
\* false, the tracer, its configuration and the timeout pass through.
normalize(opt) ==
    IF opt = None
    THEN [disable_storage |-> FALSE, disable_memory |-> FALSE,
          disable_stack |-> FALSE, tracer |-> None, tracer_config |-> None,
          timeout |-> None]
    ELSE [disable_storage |-> unwrap_or(opt[1].disable_storage, FALSE),
          disable_memory |-> unwrap_or(opt[1].disable_memory, FALSE),
          disable_stack |-> unwrap_or(opt[1].disable_stack, FALSE),
          tracer |-> opt[1].tracer,
          tracer_config |-> opt[1].tracer_config,
          timeout |-> opt[1].timeout]

\* Mutant of bad_blocks: a reference that is no block id is an error.
bad_blocks_checked(number) ==
    IF deserialize_RequestBlockId(number).variant = "Err"
    THEN Err("UnknownBlock")
    ELSE Ok(<<>>)

\* debug_getBadBlocks: the list of bad blocks is always empty.
bad_blocks(number) == Ok(<<>>)

\* ------------------------------------------------------------- inputs

Alphabet == {"0", "1", "9", "f", "F", "x", "+", "-", " "}

RECURSIVE TextsUpTo(_)
\* Every text over Alphabet of at most n characters.
TextsUpTo(n) ==
    IF n = 0 THEN {<<>>}
    ELSE LET shorter == TextsUpTo(n - 1)
         IN  shorter \cup {Append(t, c) : t \in shorter, c \in Alphabet}

Prefix0x == <<"0", "x">>

ShortTexts ==
    TextsUpTo(MaxLen) \cup {Prefix0x \o t : t \in TextsUpTo(MaxLen - 1)}

\* Texts outside the alphabet: an uppercase prefix, a letter that is no
\* hex digit, hex digits without the prefix.
OddTexts ==
    {<<"0", "X">>, <<"0", "X", "5">>, <<"0", "X", "f">>, <<"g">>,
     <<"0", "x", "g">>, <<"a", "b">>, <<"A">>, <<"1", "e", "3">>,
     <<"0", "x", "0", "x", "1">>, <<"1", "_", "0">>, <<"1", ".", "0">>,
     <<"+", "5">>, <<"0", "x", "+", "5">>, <<"-", "5">>, <<"0", "x", "-", "5">>,
     <<"n", "o", "t", "-", "a", "-", "t", "h", "i", "n", "g">>}

Repeat(c, n) == [i \in 1..n |-> c]

FromDigits(ds) == [i \in 1..Len(ds) |-> DecDigits[ds[i] + 1]]

\* Decimal texts around 2^32 - 1 = 4294967295.
BoundaryDecimal ==
    {FromDigits(<<4, 2, 9, 4, 9, 6, 7, 2, 9, 5>>),
     FromDigits(<<4, 2, 9, 4, 9, 6, 7, 2, 9, 6>>),
     FromDigits(<<4, 2, 9, 4, 9, 6, 7, 3, 0, 0>>),
     FromDigits(<<4, 2, 9, 4, 9, 6, 7, 2, 8, 9>>),
     FromDigits(<<4, 3, 0, 0, 0, 0, 0, 0, 0, 0>>),
     FromDigits(<<9, 9, 9, 9, 9, 9, 9, 9, 9, 9>>),
     FromDigits(<<3, 9, 9, 9, 9, 9, 9, 9, 9, 9>>),
     FromDigits(<<1, 0, 0, 0, 0, 0, 0, 0, 0, 0, 0>>),
     FromDigits(<<4, 2, 9, 4, 9, 6, 7, 2, 9, 5, 0>>),
     FromDigits(<<9, 9, 9, 9, 9, 9, 9, 9, 9>>)}

\* Hex digit texts around 0xffffffff.
BoundaryHex ==
    {Repeat("f", 8), Repeat("F", 8), <<"1">> \o Repeat("0", 8),
     Repeat("f", 9), <<"f", "f", "f", "f", "F", "F", "F", "e">>,
     <<"1">> \o Repeat("0", 7) \o <<"1">>, <<"7">> \o Repeat("f", 7),
     <<"1">> \o Repeat("f", 8)}

Signs == {<<>>, <<"+">>}

BoundaryTexts ==
    {s \o Repeat("0", k) \o d : s \in Signs, k \in 0..MaxPad, d \in BoundaryDecimal}
    \cup {Prefix0x \o s \o Repeat("0", k) \o d :
              s \in Signs, k \in 0..MaxPad, d \in BoundaryHex}

\* Sample u32 values, as limbs.
SampleU32 ==
    {<<hi, lo>> : hi \in {0, 1, 255, 32768, 65535},
                  lo \in {0, 1, 9, 10, 255, 12345, 65535}}

HexDigitChars == DecDigits \o LowerHexLetters

\* The four hex digits of one limb.
Hex4(limb) ==
    <<HexDigitChars[(limb \div 4096) + 1],
      HexDigitChars[((limb \div 256) % 16) + 1],
      HexDigitChars[((limb \div 16) % 16) + 1],
      HexDigitChars[(limb % 16) + 1]>>

\* Leading zeros dropped, the last digit kept.
StripZeros(t) ==
    LET significant == {i \in 1..Len(t) : t[i] /= "0" \/ i = Len(t)}
    IN  IF t = <<>> THEN t
        ELSE SubSeq(t, CHOOSE i \in significant : \A j \in significant : i <= j, Len(t))

\* The hex wire form of a number: "0x" and its hex digits.
ToHex(n) == Prefix0x \o StripZeros(Hex4(n[1]) \o Hex4(n[2]))

RECURSIVE DecimalDigits(_)
\* The decimal digits of a number, by division of the limbs by ten.
DecimalDigits(n) ==
    LET t == (n[1] % 10) * Limb + n[2]
        q == <<n[1] \div 10, t \div 10>>
        d == <<DecDigits[(t % 10) + 1]>>
    IN  IF q = <<0, 0>> THEN d ELSE DecimalDigits(q) \o d

ToDecimal(n) == DecimalDigits(n)

\* The hex wire form with uppercase digits (the prefix stays "0x").
ToUpperHex(n) == Prefix0x \o UpperText(SubSeq(ToHex(n), 3, Len(ToHex(n))))

RECURSIVE Spellings(_)
\* Every upper/lower-case spelling of a lowercase word.
Spellings(w) ==
    IF w = <<>> THEN {<<>>}
    ELSE {<<c>> \o r : c \in {Head(w), ToUpper(Head(w))}, r \in Spellings(Tail(w))}

TagTexts ==
    UNION {Spellings(TagNames[t]) : t \in DOMAIN TagNames}
    \cup {TagNames.Latest \o <<" ">>, <<" ">> \o TagNames.Pending,
          <<"l", "a", "t", "e">>, <<"s", "a", "f", "e">>,
          <<"f", "i", "n", "a", "l", "i", "z", "e", "d">>}

DigestTailChars == {"0", "5", "b", "E", "g", " "}

DigestTails ==
    {<<>>} \cup {<<c>> : c \in DigestTailChars}
    \cup {<<c, d>> : c \in DigestTailChars, d \in DigestTailChars}

\* Texts of 63, 64 and 65 characters, with and without "0x": a fill
\* character repeated, then a tail.
DigestTexts ==
    {p \o Repeat(c, n - Len(t)) \o t :
        p \in {<<>>, Prefix0x}, c \in {"0", "7", "c", "D"},
        n \in {2 * HashBytes - 1, 2 * HashBytes, 2 * HashBytes + 1},
        t \in DigestTails}

AllTexts ==
    ShortTexts \cup OddTexts \cup BoundaryTexts \cup TagTexts \cup DigestTexts
    \cup {ToHex(n) : n \in SampleU32} \cup {ToUpperHex(n) : n \in SampleU32}
    \cup {ToDecimal(n) : n \in SampleU32}

\* The JSON values tried as a number or a block id.
JsonInputs ==
    {JsonString(t) : t \in AllTexts}
    \cup {JsonNull, JsonNumber(<<"5">>), JsonNumber(<<"0">>)}

FieldValues == GoodValues \cup {"null", "bad"}

\* The JSON objects over the given keys with at most MaxKeys keys and any
\* values, and those with any keys and one good value everywhere.
Objects(keys) ==
    UNION {[ks -> FieldValues] : ks \in {k \in SUBSET keys : Cardinality(k) <= MaxKeys}}
    \cup {[k \in ks |-> "0x1"] : ks \in SUBSET keys}

CallObjects == Objects(CallKeys \cup {"chainId"})

FlagValues == {"true", "false", "null", "bad"}

\* The JSON objects of trace options: each flag left out or given, the
\* tracer, its configuration and the timeout left out or given.
TraceObjects ==
    UNION {[ks -> FlagValues] :
              ks \in SUBSET {"disableStorage", "disableMemory", "disableStack"}}

TraceExtras ==
    UNION {[ks -> {"0x0", "0x1"}] : ks \in SUBSET {"tracer", "tracerConfig", "timeout"}}

Merge(f, g) ==
    [k \in DOMAIN f \cup DOMAIN g |-> IF k \in DOMAIN f THEN f[k] ELSE g[k]]

TraceParamInputs ==
    {Omitted, NullParam}
    \cup {ObjectParam(Merge(f, g)) : f \in TraceObjects, g \in TraceExtras}
    \cup {ObjectParam([k \in {"tracer"} |-> "bad"]),
          ObjectParam([k \in {"timeout", "extra"} |-> "null"])}

\* The small sets the whole of debug_traceCall is run over.
FewCallObjects ==
    {f \in CallObjects : DOMAIN f \subseteq {"to", "value"}}

FewIds ==
    {JsonString(ToHex(<<0, 12345>>)), JsonString(TagNames.Latest),
     JsonString(<<"L", "a", "t", "e", "s", "t">>), JsonString(<<"+", "5">>),
     JsonString(Repeat("a", 2 * HashBytes)), JsonNull}

\* The block references debug_getBadBlocks is asked about: numbers, hashes
\* and tags, and texts that are none of them.
BlockRefs ==
    FewIds
    \cup {JsonString(ToDecimal(n)) : n \in SampleU32}
    \cup {JsonString(Repeat(c, 2 * HashBytes)) : c \in {"0", "7", "c", "D"}}
    \cup {JsonString(TagNames[t]) : t \in DOMAIN TagNames}
    \cup {JsonString(t) : t \in OddTexts}

FewTraceParams ==
    {Omitted, NullParam, ObjectParam(<<>>),
     ObjectParam([k \in {"disableMemory"} |-> "true"]),
     ObjectParam([k \in {"tracer", "timeout"} |-> "0x1"]),
     ObjectParam([k \in {"disableStack"} |-> "bad"])}

\* ------------------------------------------------------------- requests

Init ==
    /\ method = "none"
    /\ params = <<>>
    /\ result = <<>>

\* deserialize_u32_0x on one JSON value.
ParseUnsigned32 ==
    /\ method = "none"
    /\ \E json \in JsonInputs :
          /\ method' = "deserialize_u32_0x"
          /\ params' = json
          /\ result' = deserialize_u32_0x(json)

\* A block id decoded from one JSON value.
ResolveBlockId ==
    /\ method = "none"
    /\ \E json \in JsonInputs :
          /\ method' = "RequestBlockId"
          /\ params' = json
          /\ result' = deserialize_RequestBlockId(json)

\* A call envelope decoded from one JSON object.
DecodeCallParams ==
    /\ method = "none"
    /\ \E obj \in CallObjects :
          /\ method' = "TraceCallParams"
          /\ params' = obj
          /\ result' = deserialize_TraceCallParams(obj)

\* Trace options decoded, then normalized.
normalize_params(param) ==
    LET r == deserialize_OptionTraceParams(param)
    IN  IF r.ok THEN Ok(normalize(r.val)) ELSE r

NormalizeTraceParams ==
    /\ method = "none"
    /\ \E param \in TraceParamInputs :
          /\ method' = "TraceParams"
          /\ params' = param
          /\ result' = normalize_params(param)

\* debug_getBadBlocks.
BadBlocks ==
    /\ method = "none"
    /\ \E json \in BlockRefs :
          /\ method' = "debug_getBadBlocks"
          /\ params' = json
          /\ result' = bad_blocks(json)

\* debug_traceCall: the three parameters are decoded in their order, the
\* first that fails is the error of the call; otherwise the request goes
\* to the tracing engine.
trace_call(obj, json, param) ==
    LET call == deserialize_TraceCallParams(obj)
        id == deserialize_RequestBlockId(json)
        opt == deserialize_OptionTraceParams(param)
    IN  IF ~call.ok THEN call
        ELSE IF id.variant = "Err" THEN Err("NoVariant")
        ELSE IF ~opt.ok THEN opt
        ELSE Ok([call_params |-> call.val, id |-> id, params |-> normalize(opt.val)])

TraceCall ==
    /\ method = "none"
    /\ \E obj \in FewCallObjects, json \in FewIds, param \in FewTraceParams :
          /\ method' = "debug_traceCall"
          /\ params' = <<obj, json, param>>
          /\ result' = trace_call(obj, json, param)

\* The response is sent and the request's values are dropped.
Respond ==
    /\ method /= "none"
    /\ method' = "none"
    /\ params' = <<>>
    /\ result' = <<>>

Next ==
    \/ ParseUnsigned32
    \/ ResolveBlockId
    \/ DecodeCallParams
    \/ NormalizeTraceParams
    \/ BadBlocks
    \/ TraceCall
    \/ Respond

Spec == Init /\ [][Next]_vars

\* ------------------------------------------------------------- texts, read independently

IsDecText(t) == Len(t) >= 1 /\ \A i \in 1..Len(t) : to_digit(t[i], 10) /= NoDigit

IsHexText(t) == Len(t) >= 1 /\ \A i \in 1..Len(t) : IsHexChar(t[i])

\* The text after an optional "0x".
Body(t) == IF HasPrefix0x(t) THEN SubSeq(t, 3, Len(t)) ELSE t

\* The text after an optional "+".
Unsigned(t) == IF t /= <<>> /\ Head(t) = "+" THEN Tail(t) ELSE t

\* a > b for two digit texts of one length, digit by digit from the left.
DigitsGreater(a, b) ==
    \E i \in 1..Len(a) :
        /\ \A j \in 1..(i - 1) : a[j] = b[j]
        /\ to_digit(a[i], 16) > to_digit(b[i], 16)

MaxDecimal == FromDigits(<<4, 2, 9, 4, 9, 6, 7, 2, 9, 5>>)

\* A decimal digit text whose value is above 2^32 - 1: more significant
\* digits than 4294967295, or as many and greater.
ExceedsDec(t) ==
    LET sig == StripZeros(t)
    IN  \/ Len(sig) > Len(MaxDecimal)
        \/ Len(sig) = Len(MaxDecimal) /\ DigitsGreater(sig, MaxDecimal)

\* A hex digit text whose value is above 0xffffffff: more than eight
\* significant digits.
ExceedsHex(t) == Len(StripZeros(t)) > 8

\* One of the two lexical forms of a number: "0x" and hex digits, or
\* decimal digits.
IsNumberForm(t) ==
    IF HasPrefix0x(t) THEN IsHexText(Body(t)) ELSE IsDecText(t)

\* The same, with one "+" allowed before the digits.
IsSignedNumberForm(t) ==
    IF HasPrefix0x(t) THEN IsHexText(Unsigned(Body(t))) ELSE IsDecText(Unsigned(t))

DigitsOf(t) == IF HasPrefix0x(t) THEN Unsigned(Body(t)) ELSE Unsigned(t)

Exceeds32(t) ==
    IF HasPrefix0x(t) THEN ExceedsHex(DigitsOf(t)) ELSE ExceedsDec(DigitsOf(t))

\* The lowercase hex digits of a byte sequence.
HexOfBytes(bytes) ==
    [i \in 1..(2 * Len(bytes)) |->
        IF i % 2 = 1
        THEN HexDigitChars[(bytes[(i + 1) \div 2] \div 16) + 1]
        ELSE HexDigitChars[(bytes[i \div 2] % 16) + 1]]

IsText == params.type = "string"

\* ------------------------------------------------------------- claims

\* C1: for every u32 n, the block id decoded from the hex wire form of n
\* ("0x" and the hex digits of n, in either case) and from the decimal
\* digits of n is Number(n).
C1_NumberFormsResolve ==
    method = "RequestBlockId" =>
        \A n \in SampleU32 :
            params \in {JsonString(ToHex(n)), JsonString(ToUpperHex(n)),
                        JsonString(ToDecimal(n))}
                => result = Number(n)

C1_Witness ==
    /\ method = "RequestBlockId"
    /\ params = JsonString(<<"0", "x", "3", "0", "3", "9">>)
    /\ result = Number(<<0, 12345>>)

\* C2: deserialize_u32_0x never truncates or wraps: a hex or decimal text
\* whose value is above 2^32 - 1 is an error, and the number returned for
\* a digit text is the number the digits write (formatted again, it gives
\* back the digits without their leading zeros).
C2_NoTruncation ==
    (method = "deserialize_u32_0x" /\ IsText) =>
        /\ (IsSignedNumberForm(params.text) /\ Exceeds32(params.text)) => ~result.ok
        /\ (result.ok /\ IsNumberForm(params.text)) =>
              IF HasPrefix0x(params.text)
              THEN ToHex(result.val) = Prefix0x \o LowerText(StripZeros(Body(params.text)))
              ELSE ToDecimal(result.val) = StripZeros(params.text)

C2_Witness ==
    /\ method = "deserialize_u32_0x"
    /\ params = JsonString(FromDigits(<<4, 2, 9, 4, 9, 6, 7, 2, 9, 6>>))
    /\ ~result.ok

\* C3: deserialize_u32_0x accepts only "0x" followed by hex digits, or
\* decimal digits; every other text is an error.
C3_OnlyTwoForms ==
    (method = "deserialize_u32_0x" /\ result.ok) =>
        IsText /\ IsNumberForm(params.text)

\* C4: a text of exactly 64 hex digits, with or without "0x", that
\* deserialize_u32_0x does not accept decodes as Hash, with the 32 bytes
\* the digits write.
C4_DigestResolvesToHash ==
    (/\ method = "RequestBlockId"
     /\ IsText
     /\ Len(Body(params.text)) = 2 * HashBytes
     /\ IsHexText(Body(params.text))
     /\ ~deserialize_u32_0x(params).ok) =>
        /\ result.variant = "Hash"
        /\ Len(result.hash) = HashBytes
        /\ HexOfBytes(result.hash) = LowerText(Body(params.text))

C4_Witness ==
    /\ method = "RequestBlockId"
    /\ params = JsonString(Repeat("D", 2 * HashBytes - 1) \o <<"b">>)
    /\ result.variant = "Hash"
    /\ result.hash[HashBytes] = 219

\* C5, as claimed: every upper/lower-case spelling of "earliest", "latest"
\* and "pending" decodes as the tag.
C5_CaseInsensitiveTags ==
    (method = "RequestBlockId" /\ IsText) =>
        \A t \in DOMAIN TagNames :
            LowerText(params.text) = TagNames[t] => result = Tag(t)

\* C5, amended: the lowercase texts "earliest", "latest" and "pending"
\* decode as Tag(Earliest), Tag(Latest) and Tag(Pending); every other
\* spelling of them in upper or mixed case is an error.
C5_ExactTags ==
    (method = "RequestBlockId" /\ IsText) =>
        \A t \in DOMAIN TagNames :
            LowerText(params.text) = TagNames[t] =>
                IF params.text = TagNames[t]
                THEN result = Tag(t)
                ELSE result = NoVariant

C5_Witness ==
    /\ method = "RequestBlockId"
    /\ params = JsonString(<<"L", "a", "t", "e", "s", "t">>)
    /\ result = NoVariant

C7_NoOverlap ==
    method = "RequestBlockId" =>
        LET n == deserialize_u32_0x(params).ok
            h == deserialize_H256(params).ok
            t == deserialize_RequestBlockTag(params).ok
        IN  ~(n /\ h) /\ ~(n /\ t) /\ ~(h /\ t)

\* C7, amended: the tag names overlap with neither of the others.  The
\* number parser and the digest decoder accept the same input only when
\* it is 64 digits (hex after "0x", decimal without it) that write a
\* value of at most 2^32 - 1, and then the block id is the Number, the
\* variant tried first.
C7_OverlapIsNumber ==
    method = "RequestBlockId" =>
        LET n == deserialize_u32_0x(params).ok
            h == deserialize_H256(params).ok
            t == deserialize_RequestBlockTag(params).ok
        IN  /\ ~(n /\ t) /\ ~(h /\ t)
            /\ (n /\ h) =>
                  /\ result.variant = "Number"
                  /\ Len(Body(params.text)) = 2 * HashBytes
                  /\ IsNumberForm(params.text)
                  /\ ~Exceeds32(params.text)

C7_Witness ==
    /\ method = "RequestBlockId"
    /\ params = JsonString(Prefix0x \o Repeat("0", 2 * HashBytes - 1) \o <<"5">>)
    /\ deserialize_H256(params).ok
    /\ result = Number(<<0, 5>>)

\* C8: a call envelope without `to` is an error, the missing-field error
\* when every value present decodes; an envelope of `to` alone decodes,
\* and each of its other ten fields is None.
C8_ToIsRequired ==
    method = "TraceCallParams" =>
        /\ "to" \notin DOMAIN params =>
              /\ ~result.ok
              /\ ~Undecodable(params, CallKeys, {"to"}) => result.err = "MissingField(to)"
        /\ (DOMAIN params = {"to"} /\ params["to"] \in GoodValues) =>
              /\ result.ok
              /\ result.val.to = params["to"]
              /\ \A f \in DOMAIN result.val \ {"to"} : result.val[f] = None
              /\ Cardinality(DOMAIN result.val) = Cardinality(CallKeys)

C8_Witness ==
    /\ method = "TraceCallParams"
    /\ DOMAIN params = {"from", "value", "type"}
    /\ result.err = "MissingField(to)"

====
